---- MODULE Spec2Model ----
(***************************************************************************)
(* GnssTestApp: the frequency classifier behind identifyFrequencyBand /    *)
(* getFrequencyBandInfo (declared in src/src/types.d.ts, called from       *)
(* src/src/TestComponent.tsx) and the host's use of it.                    *)
(*                                                                         *)
(* Frequencies are fixed-point integers in units of 0.0001 MHz: every      *)
(* value of CarrierFrequencies has at most four decimals (1598.0625), so   *)
(* 1575.42 MHz is 15754200.  A JavaScript number that is not finite (NaN,  *)
(* +Infinity, -Infinity) is a separate kind of input.                      *)
(***************************************************************************)
EXTENDS Integers, Sequences, FiniteSets, TLC

VARIABLES
    table,      \* the reference table the classifier reads
    pc,         \* position of the single classify caller
    arg,        \* frequency passed to identifyFrequencyBand
    ctx,        \* constellation context of the caller ("none" when absent)
    result,     \* outcome of the last identifyFrequencyBand call
    bpc,        \* position of the getFrequencyBandInfo caller
    bin,        \* its input sequence
    bidx,       \* index of the next element to classify
    bout,       \* results produced so far
    agg,        \* last aggregateDualFrequencyCapability value
    hostDual,   \* the host's "Dual-Frequency" indicator for the same results
    cpc,        \* per concurrent caller: position
    carg,       \* per concurrent caller: input
    cres,       \* per concurrent caller: outcome
    first,      \* outcome of the first completed call with the probed input
    hpc,                  \* useGnssStatus: "rendered", "mounted" or "unmounted"
    status,               \* useGnssStatus: status state (Null or a GnssStatusResult)
    isListening,          \* useGnssStatus: isListening state
    fetchState,           \* the initial getGNSSStatus() promise
    startState,           \* the startListening() promise
    stopState,            \* the stopListening() promise
    stopCalls,            \* number of stopListening() calls
    satelliteListener,    \* 'onSatelliteStatusChanged' listener registered
    measurementListener,  \* 'onMeasurementsChanged' listener registered
    delivered,            \* number of events delivered to the listeners
    lastEvent,            \* data of the last delivered event
    platformOS,           \* Platform.OS
    apc,                  \* QuickGnssTest: "rendered" or "mounted"
    hasPermission,        \* QuickGnssTest: hasPermission state ("null", "true", "false")
    checksPending,        \* PermissionsAndroid.requestMultiple promises in flight
    alertOpen,            \* the 'Permissions Required' alert is showing
    resultText,           \* QuickGnssTest: result state, the displayed text
    resultBy,             \* who set it last: 0 nobody, -1 checkPermissions, i the i-th operation
    ops,                  \* the test operations triggered so far, in trigger order
    getCalls,             \* getGNSSStatus() calls made by the test operations
    lastStep              \* "press" after a test button press, "other" otherwise

hookVars == <<hpc, status, isListening, fetchState, startState, stopState, stopCalls,
              satelliteListener, measurementListener, delivered, lastEvent>>
appVars == <<platformOS, apc, hasPermission, checksPending, alertOpen, resultText, resultBy,
             ops, getCalls, lastStep>>
uiVars == <<hookVars, appVars>>

vars == <<table, pc, arg, ctx, result, bpc, bin, bidx, bout, agg, hostDual, cpc, carg, cres, first, uiVars>>

classifyVars == <<pc, arg, ctx, result>>
batchVars == <<bpc, bin, bidx, bout, agg, hostDual>>
pureVars == <<cpc, carg, cres, first>>

-----------------------------------------------------------------------------
(* Bounds of the model *)

MaxBatch == 3
NumCallers == 2
MaxEvents == 3
MaxOps == 2
MaxChecks == 2

-----------------------------------------------------------------------------
(* The reference data of src/src/types.d.ts *)

\* CarrierFrequencies, in 0.0001 MHz.
CarrierFrequencies ==
    [ GPS_L1         |-> 15754200,
      GPS_L2         |-> 12276000,
      GPS_L5         |-> 11764500,
      GLONASS_L1     |-> 16020000,
      GLONASS_L1_MIN |-> 15980625,
      GLONASS_L1_MAX |-> 16053750,
      GLONASS_L2_MIN |-> 12429375,
      GLONASS_L2_MAX |-> 12486250,
      GALILEO_E1     |-> 15754200,
      GALILEO_E5a    |-> 11764500,
      GALILEO_E5b    |-> 12071400,
      GALILEO_E6     |-> 12787500,
      BEIDOU_B1      |-> 15610980,
      BEIDOU_B2a     |-> 11764500,
      BEIDOU_B3      |-> 12685200,
      NAVIC_L5       |-> 11764500,
      NAVIC_S        |-> 24920280,
      QZSS_L1        |-> 15754200,
      QZSS_L5        |-> 11764500,
      QZSS_LEX       |-> 12787500 ]

\* GnssConstellations: name -> conventional numbering.
GnssConstellations ==
    [ UNKNOWN |-> 0, GPS |-> 1, SBAS |-> 2, GLONASS |-> 3,
      QZSS |-> 4, BEIDOU |-> 5, GALILEO |-> 6, IRNSS |-> 7 ]

\* The reference table's "(Primary)" bands; every other band is "(Dual-Freq)".
PrimaryBandsOnlyL1 == {"L1"}

PrimaryBands == {"L1", "E1", "B1", "G1"}

isPrimaryBand(band) == band \in PrimaryBands

\* A ReferenceFrequency with a nominal value only.
Nominal(c, b, f) ==
    [constellation |-> c, band |-> b, isDualFrequency |-> ~isPrimaryBand(b),
     hasNominal |-> TRUE, nominal |-> f, hasRange |-> FALSE, min |-> 0, max |-> 0]

\* A ReferenceFrequency with a [min, max] range, with or without a nominal value.
Ranged(c, b, hasNom, f, lo, hi) ==
    [constellation |-> c, band |-> b, isDualFrequency |-> ~isPrimaryBand(b),
     hasNominal |-> hasNom, nominal |-> f, hasRange |-> TRUE, min |-> lo, max |-> hi]

\* The table without the QZSS rows.
ReferenceTableNoQzss ==
    << Nominal("GPS", "L1", CarrierFrequencies.GPS_L1),
       Nominal("GPS", "L2", CarrierFrequencies.GPS_L2),
       Nominal("GPS", "L5", CarrierFrequencies.GPS_L5),
       Ranged("GLONASS", "L1", TRUE, CarrierFrequencies.GLONASS_L1,
              CarrierFrequencies.GLONASS_L1_MIN, CarrierFrequencies.GLONASS_L1_MAX),
       Ranged("GLONASS", "L2", FALSE, 0,
              CarrierFrequencies.GLONASS_L2_MIN, CarrierFrequencies.GLONASS_L2_MAX),
       Nominal("GALILEO", "E1", CarrierFrequencies.GALILEO_E1),
       Nominal("GALILEO", "E5a", CarrierFrequencies.GALILEO_E5a),
       Nominal("GALILEO", "E5b", CarrierFrequencies.GALILEO_E5b),
       Nominal("GALILEO", "E6", CarrierFrequencies.GALILEO_E6),
       Nominal("BEIDOU", "B1", CarrierFrequencies.BEIDOU_B1),
       Nominal("BEIDOU", "B2a", CarrierFrequencies.BEIDOU_B2a),
       Nominal("BEIDOU", "B3", CarrierFrequencies.BEIDOU_B3),
       Nominal("NAVIC", "L5", CarrierFrequencies.NAVIC_L5),
       Nominal("NAVIC", "S", CarrierFrequencies.NAVIC_S) >>

\* The table keyed by frequency: one row per distinct value, the first key winning.
ReferenceTableDedup ==
    << Nominal("GPS", "L1", CarrierFrequencies.GPS_L1),
       Nominal("GPS", "L2", CarrierFrequencies.GPS_L2),
       Nominal("GPS", "L5", CarrierFrequencies.GPS_L5),
       Ranged("GLONASS", "L1", TRUE, CarrierFrequencies.GLONASS_L1,
              CarrierFrequencies.GLONASS_L1_MIN, CarrierFrequencies.GLONASS_L1_MAX),
       Ranged("GLONASS", "L2", FALSE, 0,
              CarrierFrequencies.GLONASS_L2_MIN, CarrierFrequencies.GLONASS_L2_MAX),
       Nominal("GALILEO", "E5b", CarrierFrequencies.GALILEO_E5b),
       Nominal("GALILEO", "E6", CarrierFrequencies.GALILEO_E6),
       Nominal("BEIDOU", "B1", CarrierFrequencies.BEIDOU_B1),
       Nominal("BEIDOU", "B3", CarrierFrequencies.BEIDOU_B3),
       Nominal("NAVIC", "S", CarrierFrequencies.NAVIC_S) >>

\* The table with the GLONASS _MIN/_MAX keys ignored: GLONASS L1 by its nominal
\* value only, and no GLONASS L2 row (it has no nominal key).
ReferenceTableNoRange ==
    << Nominal("GPS", "L1", CarrierFrequencies.GPS_L1),
       Nominal("GPS", "L2", CarrierFrequencies.GPS_L2),
       Nominal("GPS", "L5", CarrierFrequencies.GPS_L5),
       Nominal("GLONASS", "L1", CarrierFrequencies.GLONASS_L1),
       Nominal("GALILEO", "E1", CarrierFrequencies.GALILEO_E1),
       Nominal("GALILEO", "E5a", CarrierFrequencies.GALILEO_E5a),
       Nominal("GALILEO", "E5b", CarrierFrequencies.GALILEO_E5b),
       Nominal("GALILEO", "E6", CarrierFrequencies.GALILEO_E6),
       Nominal("BEIDOU", "B1", CarrierFrequencies.BEIDOU_B1),
       Nominal("BEIDOU", "B2a", CarrierFrequencies.BEIDOU_B2a),
       Nominal("BEIDOU", "B3", CarrierFrequencies.BEIDOU_B3),
       Nominal("NAVIC", "L5", CarrierFrequencies.NAVIC_L5),
       Nominal("NAVIC", "S", CarrierFrequencies.NAVIC_S),
       Nominal("QZSS", "L1", CarrierFrequencies.QZSS_L1),
       Nominal("QZSS", "L5", CarrierFrequencies.QZSS_L5),
       Nominal("QZSS", "LEX", CarrierFrequencies.QZSS_LEX) >>

\* The table with the GLONASS L1 range given as [MAX, MIN].
ReferenceTableSwappedRange ==
    << Nominal("GPS", "L1", CarrierFrequencies.GPS_L1),
       Nominal("GPS", "L2", CarrierFrequencies.GPS_L2),
       Nominal("GPS", "L5", CarrierFrequencies.GPS_L5),
       Ranged("GLONASS", "L1", TRUE, CarrierFrequencies.GLONASS_L1,
              CarrierFrequencies.GLONASS_L1_MAX, CarrierFrequencies.GLONASS_L1_MIN),
       Ranged("GLONASS", "L2", FALSE, 0,
              CarrierFrequencies.GLONASS_L2_MIN, CarrierFrequencies.GLONASS_L2_MAX),
       Nominal("GALILEO", "E1", CarrierFrequencies.GALILEO_E1),
       Nominal("GALILEO", "E5a", CarrierFrequencies.GALILEO_E5a),
       Nominal("GALILEO", "E5b", CarrierFrequencies.GALILEO_E5b),
       Nominal("GALILEO", "E6", CarrierFrequencies.GALILEO_E6),
       Nominal("BEIDOU", "B1", CarrierFrequencies.BEIDOU_B1),
       Nominal("BEIDOU", "B2a", CarrierFrequencies.BEIDOU_B2a),
       Nominal("BEIDOU", "B3", CarrierFrequencies.BEIDOU_B3),
       Nominal("NAVIC", "L5", CarrierFrequencies.NAVIC_L5),
       Nominal("NAVIC", "S", CarrierFrequencies.NAVIC_S),
       Nominal("QZSS", "L1", CarrierFrequencies.QZSS_L1),
       Nominal("QZSS", "L5", CarrierFrequencies.QZSS_L5),
       Nominal("QZSS", "LEX", CarrierFrequencies.QZSS_LEX) >>

\* The table with the GLONASS L2 range closed by the L1 key (GLONASS_L1_MAX for
\* GLONASS_L2_MAX).
ReferenceTableWideGlonass ==
    << Nominal("GPS", "L1", CarrierFrequencies.GPS_L1),
       Nominal("GPS", "L2", CarrierFrequencies.GPS_L2),
       Nominal("GPS", "L5", CarrierFrequencies.GPS_L5),
       Ranged("GLONASS", "L1", TRUE, CarrierFrequencies.GLONASS_L1,
              CarrierFrequencies.GLONASS_L1_MIN, CarrierFrequencies.GLONASS_L1_MAX),
       Ranged("GLONASS", "L2", FALSE, 0,
              CarrierFrequencies.GLONASS_L2_MIN, CarrierFrequencies.GLONASS_L1_MAX),
       Nominal("GALILEO", "E1", CarrierFrequencies.GALILEO_E1),
       Nominal("GALILEO", "E5a", CarrierFrequencies.GALILEO_E5a),
       Nominal("GALILEO", "E5b", CarrierFrequencies.GALILEO_E5b),
       Nominal("GALILEO", "E6", CarrierFrequencies.GALILEO_E6),
       Nominal("BEIDOU", "B1", CarrierFrequencies.BEIDOU_B1),
       Nominal("BEIDOU", "B2a", CarrierFrequencies.BEIDOU_B2a),
       Nominal("BEIDOU", "B3", CarrierFrequencies.BEIDOU_B3),
       Nominal("NAVIC", "L5", CarrierFrequencies.NAVIC_L5),
       Nominal("NAVIC", "S", CarrierFrequencies.NAVIC_S),
       Nominal("QZSS", "L1", CarrierFrequencies.QZSS_L1),
       Nominal("QZSS", "L5", CarrierFrequencies.QZSS_L5),
       Nominal("QZSS", "LEX", CarrierFrequencies.QZSS_LEX) >>

\* The static reference table: one row per (constellation, band) key of
\* CarrierFrequencies, in the order of the declaration; the _MIN/_MAX keys are the
\* range of their band.
ReferenceTable ==
    << Nominal("GPS", "L1", CarrierFrequencies.GPS_L1),
       Nominal("GPS", "L2", CarrierFrequencies.GPS_L2),
       Nominal("GPS", "L5", CarrierFrequencies.GPS_L5),
       Ranged("GLONASS", "L1", TRUE, CarrierFrequencies.GLONASS_L1,
              CarrierFrequencies.GLONASS_L1_MIN, CarrierFrequencies.GLONASS_L1_MAX),
       Ranged("GLONASS", "L2", FALSE, 0,
              CarrierFrequencies.GLONASS_L2_MIN, CarrierFrequencies.GLONASS_L2_MAX),
       Nominal("GALILEO", "E1", CarrierFrequencies.GALILEO_E1),
       Nominal("GALILEO", "E5a", CarrierFrequencies.GALILEO_E5a),
       Nominal("GALILEO", "E5b", CarrierFrequencies.GALILEO_E5b),
       Nominal("GALILEO", "E6", CarrierFrequencies.GALILEO_E6),
       Nominal("BEIDOU", "B1", CarrierFrequencies.BEIDOU_B1),
       Nominal("BEIDOU", "B2a", CarrierFrequencies.BEIDOU_B2a),
       Nominal("BEIDOU", "B3", CarrierFrequencies.BEIDOU_B3),
       Nominal("NAVIC", "L5", CarrierFrequencies.NAVIC_L5),
       Nominal("NAVIC", "S", CarrierFrequencies.NAVIC_S),
       Nominal("QZSS", "L1", CarrierFrequencies.QZSS_L1),
       Nominal("QZSS", "L5", CarrierFrequencies.QZSS_L5),
       Nominal("QZSS", "LEX", CarrierFrequencies.QZSS_LEX) >>

-----------------------------------------------------------------------------
(* The classifier: identifyFrequencyBand (classify) *)

\* The tolerance window, +-0.5 MHz.
Tolerance == 5000

NoContext == "none"

Finite(n) == [kind |-> "finite", mhz |-> n]
NaN == [kind |-> "nan", mhz |-> 0]
PosInfinity == [kind |-> "+inf", mhz |-> 0]
NegInfinity == [kind |-> "-inf", mhz |-> 0]

Abs(n) == IF n < 0 THEN -n ELSE n

isValidFrequencyOrZero(f) == f.kind = "finite" /\ f.mhz >= 0

\* A frequency must be a finite positive number.
isValidFrequency(f) == f.kind = "finite" /\ f.mhz > 0

\* An entry matches by its nominal value within the tolerance, or by its range.
entryMatches(e, mhz) ==
    \/ e.hasNominal /\ Abs(mhz - e.nominal) <= Tolerance
    \/ e.hasRange /\ e.min <= mhz /\ mhz <= e.max

\* The scan of the table from row i on: the matching rows, in table order.
RECURSIVE scanTable(_, _, _)
scanTable(t, mhz, i) ==
    IF i > Len(t) THEN <<>>
    ELSE (IF entryMatches(t[i], mhz) THEN <<t[i]>> ELSE <<>>) \o scanTable(t, mhz, i + 1)

\* True when any of the rows is a dual-frequency band.
RECURSIVE anyDualFrequency(_)
anyDualFrequency(rows) ==
    IF rows = <<>> THEN FALSE
    ELSE Head(rows).isDualFrequency \/ anyDualFrequency(Tail(rows))

pairsOf(rows) == [i \in 1..Len(rows) |-> <<rows[i].constellation, rows[i].band>>]

\* FrequencyBandInfo, with the (constellation, band) pairs the result lists.
FrequencyBandInfo(f, c, b, dual, pairs) ==
    [frequency |-> f, constellation |-> c, band |-> b,
     isDualFrequency |-> dual, matches |-> pairs]

InvalidFrequency == [kind |-> "error", error |-> "InvalidFrequency"]

Ok(info) == [kind |-> "ok", value |-> info]

\* classify: fail on an invalid input; no match is UNKNOWN; one match is that
\* entry; several matches are the entry of the caller's constellation when the
\* caller gives one that matched, and a multi-constellation result otherwise,
\* labelled by the band of the first match.
identifyFrequencyBand(t, f, c) ==
    IF ~isValidFrequency(f) THEN InvalidFrequency
    ELSE
      LET m == scanTable(t, f.mhz, 1)
          preferred == SelectSeq(m, LAMBDA e : e.constellation = c)
          dual == anyDualFrequency(m)
      IN  IF Len(m) = 0
            THEN Ok(FrequencyBandInfo(f.mhz, "UNKNOWN", "unidentified", FALSE, <<>>))
          ELSE IF Len(m) = 1
            THEN Ok(FrequencyBandInfo(f.mhz, m[1].constellation, m[1].band, dual, pairsOf(m)))
          ELSE IF c # NoContext /\ Len(preferred) > 0
            THEN Ok(FrequencyBandInfo(f.mhz, preferred[1].constellation,
                                      preferred[1].band, dual, pairsOf(m)))
          ELSE Ok(FrequencyBandInfo(f.mhz, "multi-constellation", m[1].band, dual, pairsOf(m)))

tableAfterClassifyMoveToFront(t, f) ==
    IF ~isValidFrequency(f) THEN t
    ELSE LET hit == {i \in 1..Len(t) : entryMatches(t[i], f.mhz)}
         IN  IF hit = {} THEN t
             ELSE LET k == CHOOSE i \in hit : \A j \in hit : j <= i
                  IN  <<t[k]>> \o SubSeq(t, 1, k - 1) \o SubSeq(t, k + 1, Len(t))

\* A call leaves the table as it was: the table is read-only after initialization.
tableAfterClassify(t, f) == t

-----------------------------------------------------------------------------
(* getFrequencyBandInfo (classifyAll) and the dual-frequency aggregate *)

nextBatchOutputSkipSeen(out, info) ==
    IF \E i \in 1..Len(out) : out[i].frequency = info.frequency THEN out
    ELSE Append(out, info)

nextBatchOutputDropUnknown(out, info) ==
    IF info.constellation = "UNKNOWN" THEN out ELSE Append(out, info)

\* One result per input element, appended in input order.
nextBatchOutput(out, info) == Append(out, info)

\* aggregateDualFrequencyCapability: true iff some result is dual-frequency.
RECURSIVE aggregateDualFrequencyCapability(_)
aggregateDualFrequencyCapability(results) ==
    IF results = <<>> THEN FALSE
    ELSE Head(results).isDualFrequency \/ aggregateDualFrequencyCapability(Tail(results))

hostDualFrequencyMoreThanOne(frequencyBands) ==
    Len(SelectSeq(frequencyBands, LAMBDA b : b.isDualFrequency)) > 1

\* testSatelliteAnalysis: frequencyBands.filter(b => b.isDualFrequency).length > 0
hostDualFrequency(frequencyBands) ==
    Len(SelectSeq(frequencyBands, LAMBDA b : b.isDualFrequency)) > 0

-----------------------------------------------------------------------------
(* The inputs the callers draw from *)

NominalValues ==
    { CarrierFrequencies.GPS_L1, CarrierFrequencies.GPS_L2, CarrierFrequencies.GPS_L5,
      CarrierFrequencies.GLONASS_L1, CarrierFrequencies.GALILEO_E5b,
      CarrierFrequencies.GALILEO_E6, CarrierFrequencies.BEIDOU_B1,
      CarrierFrequencies.BEIDOU_B3, CarrierFrequencies.NAVIC_S }

RangeEnds ==
    { CarrierFrequencies.GLONASS_L1_MIN, CarrierFrequencies.GLONASS_L1_MAX,
      CarrierFrequencies.GLONASS_L2_MIN, CarrierFrequencies.GLONASS_L2_MAX }

\* Offsets around a value: on it, inside, on and just outside the tolerance.
Offsets == {0, 1, -1, 2500, -2500, Tolerance, -Tolerance, Tolerance + 1, -(Tolerance + 1)}

\* Values inside the GLONASS ranges, and values no row is near.
InsideRanges == {16000000, 16050000, 15990000, 12450000, 12480000}
FarValues == {1, 10000000, 14000000, 20000000, 99990000}

FiniteInputs ==
    { Finite(v + d) : v \in NominalValues, d \in Offsets }
      \cup { Finite(v + d) : v \in RangeEnds, d \in {0, 1, -1} }
      \cup { Finite(v) : v \in InsideRanges \cup FarValues }
      \cup { Finite(0), Finite(-1), Finite(-CarrierFrequencies.GPS_L1),
             Finite(-CarrierFrequencies.GPS_L5) }

Inputs == FiniteInputs \cup {NaN, PosInfinity, NegInfinity}

Contexts == {NoContext, "GPS", "GLONASS", "GALILEO", "BEIDOU", "NAVIC", "QZSS", "SBAS"}

NoResult == [kind |-> "none"]

\* The elements of a getFrequencyBandInfo input.
BatchInputs ==
    { Finite(CarrierFrequencies.GPS_L1), Finite(CarrierFrequencies.GPS_L5),
      Finite(CarrierFrequencies.GPS_L2), Finite(CarrierFrequencies.GLONASS_L1),
      Finite(99990000), Finite(0) }

RECURSIVE SeqsUpTo(_, _)
SeqsUpTo(S, n) ==
    IF n = 0 THEN {<<>>}
    ELSE LET shorter == SeqsUpTo(S, n - 1)
         IN  shorter \cup { Append(q, x) : q \in shorter, x \in S }

BatchSeqs == SeqsUpTo(BatchInputs, MaxBatch)

\* The inputs of the concurrent callers, and the batches run beside them.
PureInputs ==
    { Finite(CarrierFrequencies.GPS_L1), Finite(CarrierFrequencies.GPS_L5),
      Finite(CarrierFrequencies.GALILEO_E6), Finite(99990000), Finite(0) }

PureBatchSeqs ==
    { <<>>,
      <<Finite(CarrierFrequencies.GALILEO_E6)>>,
      <<Finite(CarrierFrequencies.GPS_L1), Finite(CarrierFrequencies.GPS_L5)>>,
      <<Finite(CarrierFrequencies.GPS_L5), Finite(0)>> }

-----------------------------------------------------------------------------
(* useGnssStatus: the hook of src/src/TestComponent.tsx *)

\* status before any GnssStatusResult is set: null.
Null == [null |-> TRUE]

\* What getGNSSStatus() can resolve with (the fields the model follows).
GnssStatusResult(visible, used, freqs) ==
    [satellitesVisible |-> visible, satellitesUsedInFix |-> used, carrierFrequencies |-> freqs]

GnssStatuses ==
    { GnssStatusResult(8, 5, <<Finite(CarrierFrequencies.GPS_L1), Finite(CarrierFrequencies.GPS_L5)>>),
      GnssStatusResult(0, 0, <<>>),
      GnssStatusResult(3, 0, <<Finite(0)>>) }

\* The data of an update event: any subset of these fields; "timestamp" is a
\* field GnssStatusResult does not declare.
EventFields == {"satellitesVisible", "carrierFrequencies", "timestamp"}

FullEvents ==
    { [satellitesVisible |-> v, carrierFrequencies |-> fs, timestamp |-> 1] :
        v \in {0, 8}, fs \in { <<>>, <<Finite(CarrierFrequencies.GPS_L5)>> } }

EventData == { [f \in S |-> e[f]] : e \in FullEvents, S \in SUBSET EventFields }

NoEvent == [f \in {} |-> 0]

spreadPrevWins(prev, data) ==
    [f \in (DOMAIN prev) \cup (DOMAIN data) |-> IF f \in DOMAIN prev THEN prev[f] ELSE data[f]]

\* { ...prev, ...data }
spread(prev, data) ==
    [f \in (DOMAIN prev) \cup (DOMAIN data) |-> IF f \in DOMAIN data THEN data[f] ELSE prev[f]]

updateStatusDataWhenNull(prev, data) ==
    IF prev # Null THEN spread(prev, data) ELSE data

\* prev => prev ? { ...prev, ...data } : null
updateStatus(prev, data) ==
    IF prev # Null THEN spread(prev, data) ELSE Null

InitHook ==
    /\ hpc = "rendered"
    /\ status = Null
    /\ isListening = FALSE
    /\ fetchState = "none"
    /\ startState = "none"
    /\ stopState = "none"
    /\ stopCalls = 0
    /\ satelliteListener = FALSE
    /\ measurementListener = FALSE
    /\ delivered = 0
    /\ lastEvent = NoEvent

classifierVars == <<table, classifyVars, batchVars, pureVars, appVars>>

\* The effect runs on mount: getGNSSStatus() and startListening() are called and
\* both listeners are added.
HookEffect ==
    /\ hpc = "rendered"
    /\ hpc' = "mounted"
    /\ fetchState' = "pending"
    /\ startState' = "pending"
    /\ satelliteListener' = TRUE
    /\ measurementListener' = TRUE
    /\ UNCHANGED <<status, isListening, stopState, stopCalls, delivered, lastEvent, classifierVars>>

\* getGNSSStatus().then(setStatus)
FetchResolve(s) ==
    /\ fetchState = "pending"
    /\ fetchState' = "resolved"
    /\ status' = s
    /\ UNCHANGED <<hpc, isListening, startState, stopState, stopCalls, satelliteListener,
                   measurementListener, delivered, lastEvent, classifierVars>>

\* getGNSSStatus() rejects: .catch(console.error)
FetchReject ==
    /\ fetchState = "pending"
    /\ fetchState' = "rejected"
    /\ UNCHANGED <<hpc, status, isListening, startState, stopState, stopCalls, satelliteListener,
                   measurementListener, delivered, lastEvent, classifierVars>>

\* startMonitoring: await startListening() returns, setIsListening(true)
StartResolve ==
    /\ startState = "pending"
    /\ startState' = "resolved"
    /\ isListening' = TRUE
    /\ UNCHANGED <<hpc, status, fetchState, stopState, stopCalls, satelliteListener,
                   measurementListener, delivered, lastEvent, classifierVars>>

\* startMonitoring: startListening() rejects, the error is logged
StartReject ==
    /\ startState = "pending"
    /\ startState' = "rejected"
    /\ UNCHANGED <<hpc, status, isListening, fetchState, stopState, stopCalls, satelliteListener,
                   measurementListener, delivered, lastEvent, classifierVars>>

\* 'onSatelliteStatusChanged' is delivered to its listener.
SatelliteStatusChanged(data) ==
    /\ satelliteListener
    /\ delivered < MaxEvents
    /\ delivered' = delivered + 1
    /\ lastEvent' = data
    /\ status' = updateStatus(status, data)
    /\ UNCHANGED <<hpc, isListening, fetchState, startState, stopState, stopCalls,
                   satelliteListener, measurementListener, classifierVars>>

\* 'onMeasurementsChanged' is delivered to its listener.
MeasurementsChanged(data) ==
    /\ measurementListener
    /\ delivered < MaxEvents
    /\ delivered' = delivered + 1
    /\ lastEvent' = data
    /\ status' = updateStatus(status, data)
    /\ UNCHANGED <<hpc, isListening, fetchState, startState, stopState, stopCalls,
                   satelliteListener, measurementListener, classifierVars>>

\* The cleanup on unmount: both listeners are removed and stopListening() is called.
HookCleanup ==
    /\ hpc = "mounted"
    /\ hpc' = "unmounted"
    /\ satelliteListener' = FALSE
    /\ measurementListener' = FALSE
    /\ stopCalls' = stopCalls + 1
    /\ stopState' = "pending"
    /\ UNCHANGED <<status, isListening, fetchState, startState, delivered, lastEvent, classifierVars>>

\* stopListening() settles, resolved or rejected: .finally(() => setIsListening(false))
StopSettle ==
    /\ stopState = "pending"
    /\ stopState' = "settled"
    /\ isListening' = FALSE
    /\ UNCHANGED <<hpc, status, fetchState, startState, stopCalls, satelliteListener,
                   measurementListener, delivered, lastEvent, classifierVars>>

-----------------------------------------------------------------------------
(* QuickGnssTest: permissions and the three test operations *)

\* getFrequencyBandInfo as one call: the results, or InvalidFrequency.
RECURSIVE getFrequencyBandInfo(_, _, _)
getFrequencyBandInfo(t, fs, out) ==
    IF fs = <<>> THEN [kind |-> "ok", value |-> out]
    ELSE LET r == identifyFrequencyBand(t, Head(fs), NoContext)
         IN  IF r.kind = "error" THEN r
             ELSE getFrequencyBandInfo(t, Tail(fs), nextBatchOutput(out, r.value))

\* status.carrierFrequencies.map(freq => identifyFrequencyBand(freq) ...) throws
\* when one of the calls throws.
identifyAllThrows(t, fs) ==
    \E i \in 1..Len(fs) : identifyFrequencyBand(t, fs[i], NoContext).kind = "error"

\* What getGNSSStatus() resolves with for a test operation.
TestStatuses ==
    { GnssStatusResult(8, 5, <<Finite(CarrierFrequencies.GPS_L1), Finite(CarrierFrequencies.GPS_L5)>>),
      GnssStatusResult(3, 0, <<Finite(0)>>) }

\* What can be thrown: an Error with a message, or a value that is no Error.
ErrorObject(m) == [isError |-> TRUE, message |-> m]
NonError(v) == [isError |-> FALSE, message |-> v]
NothingThrown == [isError |-> FALSE, message |-> ""]

Rejections == { ErrorObject("GNSS not available"), NonError("E_LOCATION_OFF") }

OpKinds == {"basic", "satellite", "frequency"}

Text(type, op, message, s) == [type |-> type, op |-> op, message |-> message, status |-> s]

EmptyText == Text("empty", "none", "", Null)

\* 'Testing...', 'Analyzing satellites...', 'Analyzing frequencies...'
progressText(kind) == Text("progress", kind, "", Null)

\* resultText, analysisText, frequencyText
reportText(kind, s) == Text("report", kind, "", s)

\* error instanceof Error ? error.message : 'Unknown error'
errorMessage(error) == IF error.isError THEN error.message ELSE "Unknown error"

errorTextGeneric(kind, error) == Text("error", kind, "Unknown error", Null)

\* errorText, `Analysis Error: ...`, `Frequency Analysis Error: ...`
errorText(kind, error) == Text("error", kind, errorMessage(error), Null)

\* The LOCATION PERMISSIONS REQUIRED text of checkPermissions.
permissionsText == Text("permissions", "none", "", Null)

permissionMissingOnlyFalse(hp) == hp = "false"

\* if (!hasPermission): null and false are both falsy
permissionMissing(hp) == hp # "true"

Op(kind) ==
    [kind |-> kind, pc |-> "awaitStatus", status |-> Null, thrown |-> NothingThrown,
     sets |-> 1, final |-> progressText(kind)]

InitApp ==
    /\ platformOS \in {"android", "ios"}
    /\ apc = "rendered"
    /\ hasPermission = "null"
    /\ checksPending = 0
    /\ alertOpen = FALSE
    /\ resultText = EmptyText
    /\ resultBy = 0
    /\ ops = <<>>
    /\ getCalls = 0
    /\ lastStep = "other"

restVars == <<table, classifyVars, batchVars, pureVars, hookVars>>

\* The mount effect: checkPermissions().
AppEffect ==
    /\ apc = "rendered"
    /\ apc' = "mounted"
    /\ IF platformOS = "android"
         THEN checksPending' = checksPending + 1 /\ UNCHANGED hasPermission
         ELSE hasPermission' = "true" /\ UNCHANGED checksPending
    /\ lastStep' = "other"
    /\ UNCHANGED <<platformOS, alertOpen, resultText, resultBy, ops, getCalls, restVars>>

\* requestMultiple resolves: setHasPermission(allGranted), and the
\* permissions text when not all were granted.
PermissionsAnswered(allGranted) ==
    /\ checksPending > 0
    /\ checksPending' = checksPending - 1
    /\ hasPermission' = IF allGranted THEN "true" ELSE "false"
    /\ IF allGranted
         THEN UNCHANGED <<resultText, resultBy>>
         ELSE resultText' = permissionsText /\ resultBy' = -1
    /\ lastStep' = "other"
    /\ UNCHANGED <<platformOS, apc, alertOpen, ops, getCalls, restVars>>

\* requestMultiple throws: setHasPermission(false).
PermissionsThrow ==
    /\ checksPending > 0
    /\ checksPending' = checksPending - 1
    /\ hasPermission' = "false"
    /\ lastStep' = "other"
    /\ UNCHANGED <<platformOS, apc, alertOpen, resultText, resultBy, ops, getCalls, restVars>>

\* A test button is pressed without permission: the alert, and return.
PressWithoutPermission(kind) ==
    /\ apc = "mounted"
    /\ ~alertOpen
    /\ permissionMissing(hasPermission)
    /\ alertOpen' = TRUE
    /\ lastStep' = "press"
    /\ UNCHANGED <<platformOS, apc, hasPermission, checksPending, resultText, resultBy, ops,
                   getCalls, restVars>>

\* OK on the alert: checkPermissions() again.
AlertOk ==
    /\ alertOpen
    /\ checksPending < MaxChecks
    /\ alertOpen' = FALSE
    /\ IF platformOS = "android"
         THEN checksPending' = checksPending + 1 /\ UNCHANGED hasPermission
         ELSE hasPermission' = "true" /\ UNCHANGED checksPending
    /\ lastStep' = "other"
    /\ UNCHANGED <<platformOS, apc, resultText, resultBy, ops, getCalls, restVars>>

\* A test button is pressed with permission: the progress text is set and
\* getGNSSStatus() is called.
PressTest(kind) ==
    /\ apc = "mounted"
    /\ ~alertOpen
    /\ ~permissionMissing(hasPermission)
    /\ Len(ops) < MaxOps
    /\ ops' = Append(ops, Op(kind))
    /\ resultText' = progressText(kind)
    /\ resultBy' = Len(ops) + 1
    /\ getCalls' = getCalls + 1
    /\ lastStep' = "press"
    /\ UNCHANGED <<platformOS, apc, hasPermission, checksPending, alertOpen, restVars>>

\* The operation's catch block: the error text is set.
Caught(i, error) ==
    /\ ops' = [ops EXCEPT ![i] = [@ EXCEPT !.pc = "done", !.thrown = error,
                                           !.sets = @ + 1, !.final = errorText(ops[i].kind, error)]]
    /\ resultText' = errorText(ops[i].kind, error)
    /\ resultBy' = i

\* The operation's report is set and the operation ends.
Reported(i, s) ==
    /\ ops' = [ops EXCEPT ![i] = [@ EXCEPT !.pc = "done", !.status = s,
                                           !.sets = @ + 1, !.final = reportText(ops[i].kind, s)]]
    /\ resultText' = reportText(ops[i].kind, s)
    /\ resultBy' = i

\* testFrequencyAnalysis sets its report and then logs
\* getFrequencyBandInfo(status.carrierFrequencies), still inside the try.
ReportedThenLogged(i, s) ==
    LET logged == getFrequencyBandInfo(table, s.carrierFrequencies, <<>>)
    IN  IF logged.kind = "ok" THEN Reported(i, s)
        ELSE /\ ops' = [ops EXCEPT ![i] =
                          [@ EXCEPT !.pc = "done", !.status = s, !.thrown = ErrorObject(logged.error),
                                    !.sets = @ + 2,
                                    !.final = errorText(ops[i].kind, ErrorObject(logged.error))]]
             /\ resultText' = errorText(ops[i].kind, ErrorObject(logged.error))
             /\ resultBy' = i

\* await getGNSSStatus() returns in the i-th operation.
StatusResolves(i, s) ==
    /\ i \in 1..Len(ops)
    /\ ops[i].pc = "awaitStatus"
    /\ CASE ops[i].kind = "basic" ->
              /\ ops' = [ops EXCEPT ![i] = [@ EXCEPT !.pc = "awaitDelay", !.status = s]]
              /\ UNCHANGED <<resultText, resultBy>>
         [] ops[i].kind = "satellite" ->
              LET bands == getFrequencyBandInfo(table, s.carrierFrequencies, <<>>)
              IN  IF bands.kind = "error" THEN Caught(i, ErrorObject(bands.error))
                  ELSE Reported(i, s)
         [] ops[i].kind = "frequency" ->
              IF identifyAllThrows(table, s.carrierFrequencies)
                THEN Caught(i, ErrorObject(InvalidFrequency.error))
                ELSE ReportedThenLogged(i, s)
    /\ lastStep' = "other"
    /\ UNCHANGED <<platformOS, apc, hasPermission, checksPending, alertOpen, getCalls, restVars>>

\* await getGNSSStatus() throws in the i-th operation.
StatusRejects(i, error) ==
    /\ i \in 1..Len(ops)
    /\ ops[i].pc = "awaitStatus"
    /\ Caught(i, error)
    /\ lastStep' = "other"
    /\ UNCHANGED <<platformOS, apc, hasPermission, checksPending, alertOpen, getCalls, restVars>>

\* testBasicStatus: the 1000 ms delay ends and the report is set.
DelayElapses(i) ==
    /\ i \in 1..Len(ops)
    /\ ops[i].pc = "awaitDelay"
    /\ Reported(i, ops[i].status)
    /\ lastStep' = "other"
    /\ UNCHANGED <<platformOS, apc, hasPermission, checksPending, alertOpen, getCalls, restVars>>

-----------------------------------------------------------------------------
(* One caller of identifyFrequencyBand *)

\* The caller passes a frequency, with or without a constellation context.
Invoke(f, c) ==
    /\ pc = "idle"
    /\ pc' = "called"
    /\ arg' = f
    /\ ctx' = c
    /\ result' = NoResult
    /\ UNCHANGED <<uiVars, table, batchVars, pureVars>>

\* The call returns its FrequencyBandInfo, or fails with InvalidFrequency.
Return ==
    /\ pc = "called"
    /\ pc' = "returned"
    /\ result' = identifyFrequencyBand(table, arg, ctx)
    /\ table' = tableAfterClassify(table, arg)
    /\ UNCHANGED <<uiVars, arg, ctx, batchVars, pureVars>>

\* The caller takes the result and is ready for its next call.
Release ==
    /\ pc = "returned"
    /\ pc' = "idle"
    /\ UNCHANGED <<uiVars, table, arg, ctx, result, batchVars, pureVars>>

InitClassify ==
    /\ pc = "idle"
    /\ arg = Finite(CarrierFrequencies.GPS_L1)
    /\ ctx = NoContext
    /\ result = NoResult

InitBatch ==
    /\ bpc = "idle"
    /\ bin = <<>>
    /\ bidx = 1
    /\ bout = <<>>
    /\ agg = FALSE
    /\ hostDual = FALSE

InitPure ==
    /\ cpc = [c \in 1..NumCallers |-> "idle"]
    /\ carg = [c \in 1..NumCallers |-> NaN]
    /\ cres = [c \in 1..NumCallers |-> NoResult]
    /\ first = [f \in PureInputs |-> NoResult]

Init ==
    /\ table = ReferenceTable
    /\ InitClassify
    /\ InitBatch
    /\ InitPure
    /\ InitHook
    /\ InitApp

-----------------------------------------------------------------------------
(* One caller of getFrequencyBandInfo, then of the aggregate *)

\* The caller passes a sequence of frequencies.
BatchInvoke(fs) ==
    /\ bpc = "idle"
    /\ bpc' = "running"
    /\ bin' = fs
    /\ bidx' = 1
    /\ bout' = <<>>
    /\ UNCHANGED <<uiVars, table, agg, hostDual, classifyVars, pureVars>>

\* The next element is classified, without context, and its result appended.
BatchStep ==
    /\ bpc = "running"
    /\ bidx <= Len(bin)
    /\ identifyFrequencyBand(table, bin[bidx], NoContext).kind = "ok"
    /\ bout' = nextBatchOutput(bout, identifyFrequencyBand(table, bin[bidx], NoContext).value)
    /\ bidx' = bidx + 1
    /\ table' = tableAfterClassify(table, bin[bidx])
    /\ UNCHANGED <<uiVars, bpc, bin, agg, hostDual, classifyVars, pureVars>>

\* An invalid element raises InvalidFrequency: the call fails with no results.
BatchFail ==
    /\ bpc = "running"
    /\ bidx <= Len(bin)
    /\ identifyFrequencyBand(table, bin[bidx], NoContext).kind = "error"
    /\ bpc' = "failed"
    /\ bout' = <<>>
    /\ UNCHANGED <<uiVars, table, bin, bidx, agg, hostDual, classifyVars, pureVars>>

\* Every element is classified: the call returns the results.
BatchFinish ==
    /\ bpc = "running"
    /\ bidx > Len(bin)
    /\ bpc' = "done"
    /\ UNCHANGED <<uiVars, table, bin, bidx, bout, agg, hostDual, classifyVars, pureVars>>

\* The caller aggregates the results; the host computes its own indicator.
Aggregate ==
    /\ bpc = "done"
    /\ bpc' = "aggregated"
    /\ agg' = aggregateDualFrequencyCapability(bout)
    /\ hostDual' = hostDualFrequency(bout)
    /\ UNCHANGED <<uiVars, table, bin, bidx, bout, classifyVars, pureVars>>

\* The caller is ready for its next call.
BatchRelease ==
    /\ bpc \in {"aggregated", "failed"}
    /\ bpc' = "idle"
    /\ bin' = <<>>
    /\ bidx' = 1
    /\ bout' = <<>>
    /\ agg' = FALSE
    /\ hostDual' = FALSE
    /\ UNCHANGED <<uiVars, table, classifyVars, pureVars>>

NextBatch ==
    \/ \E fs \in BatchSeqs : BatchInvoke(fs)
    \/ BatchStep
    \/ BatchFail
    \/ BatchFinish
    \/ Aggregate
    \/ BatchRelease

SpecBatch == Init /\ [][NextBatch]_vars

-----------------------------------------------------------------------------
(* Concurrent callers of identifyFrequencyBand, beside a batch *)

CallerInvoke(c, f) ==
    /\ cpc[c] = "idle"
    /\ cpc' = [cpc EXCEPT ![c] = "called"]
    /\ carg' = [carg EXCEPT ![c] = f]
    /\ UNCHANGED <<uiVars, table, cres, first, classifyVars, batchVars>>

\* The call returns; the first outcome for each input is remembered.
CallerReturn(c) ==
    /\ cpc[c] = "called"
    /\ cpc' = [cpc EXCEPT ![c] = "returned"]
    /\ cres' = [cres EXCEPT ![c] = identifyFrequencyBand(table, carg[c], NoContext)]
    /\ first' = IF first[carg[c]] = NoResult
                  THEN [first EXCEPT ![carg[c]] = identifyFrequencyBand(table, carg[c], NoContext)]
                  ELSE first
    /\ table' = tableAfterClassify(table, carg[c])
    /\ UNCHANGED <<uiVars, carg, classifyVars, batchVars>>

CallerRelease(c) ==
    /\ cpc[c] = "returned"
    /\ cpc' = [cpc EXCEPT ![c] = "idle"]
    /\ carg' = [carg EXCEPT ![c] = NaN]
    /\ cres' = [cres EXCEPT ![c] = NoResult]
    /\ UNCHANGED <<uiVars, table, first, classifyVars, batchVars>>

NextPure ==
    \/ \E c \in 1..NumCallers, f \in PureInputs : CallerInvoke(c, f)
    \/ \E c \in 1..NumCallers : CallerReturn(c)
    \/ \E c \in 1..NumCallers : CallerRelease(c)
    \/ \E fs \in PureBatchSeqs : BatchInvoke(fs)
    \/ BatchStep
    \/ BatchFail
    \/ BatchFinish
    \/ Aggregate
    \/ BatchRelease

SpecPure == Init /\ [][NextPure]_vars

NextHook ==
    \/ HookEffect
    \/ \E s \in GnssStatuses : FetchResolve(s)
    \/ FetchReject
    \/ StartResolve
    \/ StartReject
    \/ \E d \in EventData : SatelliteStatusChanged(d)
    \/ \E d \in EventData : MeasurementsChanged(d)
    \/ HookCleanup
    \/ StopSettle

SpecHook == Init /\ [][NextHook]_vars

NextApp ==
    \/ AppEffect
    \/ \E g \in BOOLEAN : PermissionsAnswered(g)
    \/ PermissionsThrow
    \/ \E k \in OpKinds : PressWithoutPermission(k)
    \/ AlertOk
    \/ \E k \in OpKinds : PressTest(k)
    \/ \E i \in 1..MaxOps, s \in TestStatuses : StatusResolves(i, s)
    \/ \E i \in 1..MaxOps, e \in Rejections : StatusRejects(i, e)
    \/ \E i \in 1..MaxOps : DelayElapses(i)

SpecApp == Init /\ [][NextApp]_vars

NextClassify ==
    \/ \E f \in Inputs, c \in Contexts : Invoke(f, c)
    \/ Return
    \/ Release

SpecClassify == Init /\ [][NextClassify]_vars

-----------------------------------------------------------------------------
(* What the claims expect of the table, written from the keys of             *)
(* CarrierFrequencies independently of ReferenceTable                         *)

Key(c, b, f) == [constellation |-> c, band |-> b, nominal |-> f]

\* The (constellation, band) keys that have a nominal value.
NominalKeys ==
    { Key("GPS", "L1", 15754200), Key("GPS", "L2", 12276000), Key("GPS", "L5", 11764500),
      Key("GLONASS", "L1", 16020000),
      Key("GALILEO", "E1", 15754200), Key("GALILEO", "E5a", 11764500),
      Key("GALILEO", "E5b", 12071400), Key("GALILEO", "E6", 12787500),
      Key("BEIDOU", "B1", 15610980), Key("BEIDOU", "B2a", 11764500),
      Key("BEIDOU", "B3", 12685200),
      Key("NAVIC", "L5", 11764500), Key("NAVIC", "S", 24920280),
      Key("QZSS", "L1", 15754200), Key("QZSS", "L5", 11764500),
      Key("QZSS", "LEX", 12787500) }

Window(c, b, lo, hi) == [constellation |-> c, band |-> b, lo |-> lo, hi |-> hi]

\* Every window of the table: +-0.5 MHz around a nominal value, [min, max] of a range.
Windows ==
    { Window(k.constellation, k.band, k.nominal - 5000, k.nominal + 5000) : k \in NominalKeys }
      \cup { Window("GLONASS", "L1", 15980625, 16053750),
             Window("GLONASS", "L2", 12429375, 12486250) }

\* The (constellation, band) pairs whose window holds mhz.
PairsAt(mhz) ==
    { <<w.constellation, w.band>> : w \in { x \in Windows : x.lo <= mhz /\ mhz <= x.hi } }

ListedPairs(info) == { info.matches[i] : i \in DOMAIN info.matches }

ExpectedDual(pair) == pair[2] \notin {"L1", "E1", "B1", "G1"}

Returned == pc = "returned"

ReturnedValid == Returned /\ arg.kind = "finite" /\ arg.mhz > 0

C3_SingleMatch ==
    ReturnedValid =>
      \A p \in PairsAt(arg.mhz) :
        PairsAt(arg.mhz) = {p} =>
          /\ result.kind = "ok"
          /\ result.value.constellation = p[1]
          /\ result.value.band = p[2]
          /\ result.value.constellation # "UNKNOWN"
          /\ ListedPairs(result.value) = {p}

C3_Witness ==
    /\ Returned
    /\ arg = Finite(CarrierFrequencies.BEIDOU_B3 - Tolerance)
    /\ result.kind = "ok"
    /\ result.value.constellation = "BEIDOU"
    /\ result.value.band = "B3"

\* C4: a finite positive frequency outside every window is classified
\* successfully as UNKNOWN, band "unidentified", not dual-frequency.
C4_NoMatchIsUnknown ==
    (ReturnedValid /\ PairsAt(arg.mhz) = {}) =>
      /\ result.kind = "ok"
      /\ result.value.constellation = "UNKNOWN"
      /\ result.value.band = "unidentified"
      /\ result.value.isDualFrequency = FALSE

C4_Witness ==
    /\ Returned
    /\ arg = Finite(99990000)
    /\ result.kind = "ok"
    /\ result.value.constellation = "UNKNOWN"

\* C5: a zero, negative or non-finite input fails with InvalidFrequency and
\* yields no classification, so classify(0) is never an UNKNOWN result.
C5_InvalidFrequency ==
    (Returned /\ (arg.kind # "finite" \/ arg.mhz <= 0)) =>
      /\ result = InvalidFrequency
      /\ result.kind # "ok"

C5_Witness ==
    /\ Returned
    /\ arg = Finite(0)
    /\ result.kind = "error"
    /\ result.error = "InvalidFrequency"

\* C6: the dual-frequency flag of a result is true exactly when at least one
\* matched entry is a non-primary band (not L1/E1/B1/G1); classify(1575.42)
\* is not dual-frequency, and its band is L1 unless the caller asks for Galileo.
C6_DualFrequencyFlag ==
    (Returned /\ result.kind = "ok") =>
      /\ result.value.isDualFrequency = (\E p \in PairsAt(arg.mhz) : ExpectedDual(p))
      /\ arg.mhz = 15754200 =>
           /\ result.value.isDualFrequency = FALSE
           /\ ctx # "GALILEO" => result.value.band = "L1"

C6_Witness ==
    /\ Returned
    /\ arg = Finite(CarrierFrequencies.GPS_L1)
    /\ ctx = NoContext
    /\ result.kind = "ok"
    /\ result.value.band = "L1"
    /\ ~result.value.isDualFrequency

\* C10: every frequency in [GLONASS_L1_MIN, GLONASS_L1_MAX], the endpoints and
\* the values farther than 0.5 MHz from 1602.0 included, is GLONASS L1 and not
\* dual-frequency.
C10_GlonassRange ==
    (Returned /\ arg.kind = "finite" /\ 15980625 <= arg.mhz /\ arg.mhz <= 16053750) =>
      /\ result.kind = "ok"
      /\ result.value.constellation = "GLONASS"
      /\ result.value.band = "L1"
      /\ result.value.isDualFrequency = FALSE

C10_Witness ==
    /\ Returned
    /\ arg = Finite(CarrierFrequencies.GLONASS_L1_MAX)
    /\ result.kind = "ok"
    /\ result.value.constellation = "GLONASS"

AllValid(fs) == \A i \in 1..Len(fs) : fs[i].kind = "finite" /\ fs[i].mhz > 0

BatchReturned == bpc \in {"done", "aggregated"}

\* C7: for an input of valid frequencies, duplicates allowed, getFrequencyBandInfo
\* returns as many results as inputs, the i-th being the classification of the
\* i-th input; it does not fail, and the empty input gives the empty output.
C7_OrderAndLength ==
    /\ (bpc = "failed") => ~AllValid(bin)
    /\ (BatchReturned /\ AllValid(bin)) =>
         /\ Len(bout) = Len(bin)
         /\ \A i \in 1..Len(bin) :
              /\ bout[i].frequency = bin[i].mhz
              /\ Ok(bout[i]) = identifyFrequencyBand(ReferenceTable, bin[i], NoContext)
    /\ (bpc = "running" /\ bin = <<>>) => bout = <<>> /\ bidx > Len(bin)

C7_Witness ==
    /\ bpc = "done"
    /\ bin = << Finite(CarrierFrequencies.GPS_L5), Finite(CarrierFrequencies.GPS_L1),
                Finite(CarrierFrequencies.GPS_L5) >>
    /\ Len(bout) = 3
    /\ bout[1] = bout[3]
    /\ bout[2].band = "L1"

\* C8: the aggregate is true iff some result is dual-frequency, false for no
\* results; true when the input holds 1176.45, false when it holds 1575.42 only;
\* and the host's "count of dual-frequency results > 0" is the same value.
C8_AggregateDualFrequency ==
    (bpc = "aggregated") =>
      /\ agg = (\E i \in 1..Len(bout) : bout[i].isDualFrequency)
      /\ hostDual = agg
      /\ (bout = <<>>) => ~agg
      /\ (\E i \in 1..Len(bin) : bin[i] = Finite(11764500)) => agg /\ hostDual
      /\ (\A i \in 1..Len(bin) : bin[i] = Finite(15754200)) => ~agg /\ ~hostDual

C8_Witness ==
    /\ bpc = "aggregated"
    /\ bin = << Finite(CarrierFrequencies.GPS_L1), Finite(CarrierFrequencies.GPS_L5) >>
    /\ agg
    /\ hostDual

C11_BatchNeverAbortsOnNoMatch ==
    AllValid(bin) =>
      /\ bpc # "failed"
      /\ BatchReturned =>
           /\ Len(bout) = Len(bin)
           /\ \A i \in 1..Len(bin) :
                /\ (bout[i].constellation = "UNKNOWN") = (PairsAt(bin[i].mhz) = {})
                /\ (PairsAt(bin[i].mhz) = {}) =>
                     bout[i].band = "unidentified" /\ ~bout[i].isDualFrequency
                /\ bout[i].frequency = bin[i].mhz
                /\ Ok(bout[i]) = identifyFrequencyBand(ReferenceTable, bin[i], NoContext)

C11_Witness ==
    /\ bpc = "done"
    /\ bin = << Finite(CarrierFrequencies.GPS_L5), Finite(99990000),
                Finite(CarrierFrequencies.GLONASS_L1) >>
    /\ Len(bout) = 3
    /\ bout[1].isDualFrequency
    /\ bout[2].constellation = "UNKNOWN"
    /\ bout[3].constellation = "GLONASS"


\* C12: an 'onSatelliteStatusChanged' or 'onMeasurementsChanged' event delivered
\* while status is non-null replaces status by the previous status overridden by
\* the event: fields the event carries take its values, all other fields keep
\* theirs, one event after the other in delivery order.
C12_EventOverridesFields ==
    [][ (delivered' = delivered + 1 /\ status # Null) =>
          /\ status' # Null
          /\ DOMAIN status' = (DOMAIN status) \cup (DOMAIN lastEvent')
          /\ \A f \in DOMAIN lastEvent' : status'[f] = lastEvent'[f]
          /\ \A f \in (DOMAIN status) \ (DOMAIN lastEvent') : status'[f] = status[f] ]_vars

C12_Witness ==
    /\ delivered = 2
    /\ fetchState = "resolved"
    /\ lastEvent = [carrierFrequencies |-> <<Finite(CarrierFrequencies.GPS_L5)>>]
    /\ status # Null
    /\ DOMAIN status = {"satellitesVisible", "satellitesUsedInFix", "carrierFrequencies", "timestamp"}
    /\ status.satellitesVisible = 0
    /\ status.satellitesUsedInFix = 5
    /\ status.carrierFrequencies = <<Finite(CarrierFrequencies.GPS_L5)>>

\* C13: once the hook is unmounted and startListening and stopListening have both
\* settled, both listeners are removed, stopListening was called exactly once
\* and isListening is false, in whichever order the two promises settled.
C13_CleanupEndsNotListening ==
    (hpc = "unmounted" /\ startState \in {"resolved", "rejected"} /\ stopState = "settled") =>
      /\ ~satelliteListener
      /\ ~measurementListener
      /\ stopCalls = 1
      /\ isListening = FALSE

\* C15: status is non-null only once the initial getGNSSStatus() has resolved;
\* an event delivered before that, or after the fetch rejected, leaves status
\* null, and after a rejected fetch status is null for good.
C15_StatusNullUntilFetched ==
    [][ /\ (status' # Null) => (fetchState' = "resolved")
        /\ (delivered' = delivered + 1 /\ fetchState # "resolved") =>
              (status = Null /\ status' = Null)
        /\ (fetchState = "rejected") => (fetchState' = "rejected" /\ status' = Null) ]_vars

C15_Witness ==
    /\ fetchState = "rejected"
    /\ delivered = 2
    /\ lastEvent = [satellitesVisible |-> 8, timestamp |-> 1]
    /\ status = Null


-----------------------------------------------------------------------------
(* QuickGnssTest *)

AllOpsDone == \A i \in 1..Len(ops) : ops[i].pc = "done"

\* C14: while hasPermission is not true (null or false) a press of a test
\* button starts no operation, calls getGNSSStatus not at all and leaves
\* the displayed result as it was; the test operations call getGNSSStatus
\* only in states where hasPermission is true.
C14_PermissionGate ==
    [][ /\ (hasPermission # "true") =>
              /\ getCalls' = getCalls
              /\ Len(ops') = Len(ops)
              /\ (lastStep' = "press") =>
                    (ops' = ops /\ resultText' = resultText /\ resultBy' = resultBy)
        /\ (getCalls' # getCalls) => hasPermission = "true"
      ]_vars

C14_Witness ==
    /\ lastStep = "press"
    /\ alertOpen
    /\ hasPermission = "null"
    /\ checksPending = 1
    /\ getCalls = 0
    /\ ops = <<>>
    /\ resultText = EmptyText

\* C16: a permitted test operation sets result to its progress text when
\* it starts and, when it completes, has set result exactly once more: to
\* its report when getGNSSStatus resolved and nothing threw, to its error
\* text with the error message (the thrown Error's message, 'Unknown
\* error' for a thrown value that is not an Error) otherwise; a step of an
\* operation that does not complete it sets nothing, and once every
\* operation has completed the result is no progress text.
C16_ProgressThenOneResult ==
    /\ [](( ops # <<>> /\ AllOpsDone) => resultText.type # "progress")
    /\ [][ \A i \in 1..Len(ops') :
             /\ (i > Len(ops)) =>
                   /\ ops'[i].pc = "awaitStatus"
                   /\ ops'[i].sets = 1
                   /\ resultText' = Text("progress", ops'[i].kind, "", Null)
             /\ (i <= Len(ops) /\ ops[i].pc # "done" /\ ops'[i].pc = "done") =>
                   /\ ops'[i].sets = 2
                   /\ resultText' = ops'[i].final
                   /\ resultText'.op = ops[i].kind
                   /\ IF ops'[i].thrown = NothingThrown
                        THEN /\ resultText'.type = "report"
                             /\ ops'[i].status \in TestStatuses
                             /\ resultText'.status = ops'[i].status
                        ELSE /\ resultText'.type = "error"
                             /\ resultText'.message =
                                  IF ops'[i].thrown.isError THEN ops'[i].thrown.message
                                  ELSE "Unknown error"
             /\ (i <= Len(ops) /\ (ops[i].pc = "done" \/ ops'[i].pc # "done")) =>
                   /\ ops'[i].sets = ops[i].sets
                   /\ ops'[i].final = ops[i].final
                   /\ (ops'[i] # ops[i]) => (resultText' = resultText)
         ]_vars

C16_Witness ==
    /\ Len(ops) = 2
    /\ ops[1].kind = "satellite" /\ ops[1].pc = "done"
    /\ ops[1].thrown = ErrorObject(InvalidFrequency.error)
    /\ ops[1].final.type = "error" /\ ops[1].final.message = InvalidFrequency.error
    /\ ops[2].kind = "basic" /\ ops[2].pc = "done"
    /\ ops[2].thrown = NothingThrown
    /\ resultText = ops[2].final
    /\ resultText.type = "report"

\* C17: when every triggered test operation has completed, the displayed
\* result is the report or error text of the most recently triggered one.
C17_LastTriggeredWins ==
    (Len(ops) >= 2 /\ AllOpsDone /\ resultBy > 0) =>
        /\ resultBy = Len(ops)
        /\ resultText = ops[Len(ops)].final

====
